---- MODULE Spec2Model ----
(***************************************************************************)
(* Model of pulhodina (src/pulhodina.py): a tab-delimited credit export is *)
(* parsed into sections of records, four derived columns are computed and  *)
(* the sections are rendered as an HTML table with row-spanning cells.     *)
(*                                                                         *)
(* Text is modelled as sequences of one-character strings, so that strip,  *)
(* split, replace, rstrip and the regular expression of the output path    *)
(* are computed character by character, as the Python code does.           *)
(***************************************************************************)
EXTENDS Integers, Sequences, FiniteSets, TLC

(***************************************************************************)
(* Bounds of the model.                                                    *)
(***************************************************************************)
\* body lines (after the two header lines) of an input file, pure-function specification
MaxLines == 3
\* lines of an owners file
MaxOwnerLines == 2
\* files listed in the input directory
MaxFiles == 2
\* consecutive runs of the tool over the same counter file
MaxRuns == 2

(***************************************************************************)
(* Program constants.                                                      *)
(***************************************************************************)
RECORDS_DELIMITER == "\t"
SAVED_MINUTES_PER_RUN == 30

(***************************************************************************)
(* Python str helpers.                                                     *)
(***************************************************************************)
\* characters str.strip() removes that occur in the modelled alphabet
Whitespace == {" ", "\t", "\n"}

Min(a, b) == IF a < b THEN a ELSE b

RECURSIVE lstrip(_)
lstrip(s) ==
    IF s = <<>> THEN <<>>
    ELSE IF Head(s) \in Whitespace THEN lstrip(Tail(s)) ELSE s

RECURSIVE rstrip(_, _)
\* str.rstrip(chars): drop trailing characters that belong to chars
rstrip(s, chars) ==
    IF s = <<>> THEN <<>>
    ELSE IF s[Len(s)] \in chars THEN rstrip(SubSeq(s, 1, Len(s) - 1), chars) ELSE s

\* str.strip()
strip(s) == rstrip(lstrip(s), Whitespace)

RECURSIVE split(_, _)
\* str.split(sep) for a one-character separator: always at least one part
split(s, sep) ==
    IF \A i \in 1..Len(s) : s[i] # sep THEN <<s>>
    ELSE LET k == CHOOSE i \in 1..Len(s) :
                      /\ s[i] = sep
                      /\ \A j \in 1..(i - 1) : s[j] # sep
         IN  <<SubSeq(s, 1, k - 1)>> \o split(SubSeq(s, k + 1, Len(s)), sep)

\* str.replace(ch, '')
remove(s, ch) == SelectSeq(s, LAMBDA c : c # ch)

\* str.startswith(ch) for a one-character prefix
startswith(s, ch) == Len(s) > 0 /\ s[1] = ch

\* parts = [part.strip() for part in line.split(RECORDS_DELIMITER)]
Parts(line) ==
    LET raw == split(line, RECORDS_DELIMITER)
    IN  [i \in 1..Len(raw) |-> strip(raw[i])]

(***************************************************************************)
(* Record                                                                  *)
(***************************************************************************)
\* attribute names in the order Record.__init__ assigns them
FieldNames == <<"sorg", "cred_acct", "name1", "po_number", "credit_value",
                "open_del", "receivables", "special_liab", "cred_limit",
                "use", "next_date">>

\* Record.__init__: attributes are assigned in order until parts[i] raises
\* IndexError; the object is constructed either way, holding only the
\* attributes assigned before the exception.
Record(line) ==
    LET parts == Parts(line)
        n     == Min(Len(parts), Len(FieldNames))
    IN  [f \in {FieldNames[i] : i \in 1..n} |->
            parts[CHOOSE i \in 1..n : FieldNames[i] = f]]

\* the "Too less parts for record" diagnostic of Record.__init__
RecordDiagnostic(line) == Len(Parts(line)) < Len(FieldNames)

(***************************************************************************)
(* Section, DataFile, Parser                                               *)
(***************************************************************************)
\* Section.is_empty
is_empty(section) == Len(section) = 0

\* DataFile.add_section: an empty section is not appended
add_section(sections, section) ==
    IF is_empty(section) THEN sections ELSE Append(sections, section)

RECURSIVE parse_loop(_, _, _, _)
\* the for loop of Parser.parse over lines[2:], with the final add_section;
\* errs counts the diagnostics printed by Record.__init__
parse_loop(rest, sections, current_section, errs) ==
    IF rest = <<>>
    THEN [sections |-> add_section(sections, current_section), errs |-> errs]
    ELSE LET line == strip(Head(rest))
         IN  IF Len(line) = 0
             THEN parse_loop(Tail(rest), sections, current_section, errs)
             ELSE IF startswith(line, "*")
             THEN parse_loop(Tail(rest), add_section(sections, current_section),
                             <<>>, errs)
             ELSE parse_loop(Tail(rest), sections,
                             Append(current_section, Record(line)),
                             errs + (IF RecordDiagnostic(line) THEN 1 ELSE 0))

\* Parser.parse over lines[1:]: only one header line is skipped
parse_one_header(lines) ==
    parse_loop(IF Len(lines) > 1 THEN SubSeq(lines, 2, Len(lines)) ELSE <<>>,
               <<>>, <<>>, 0)

\* Parser.parse: lines[2:] is empty when the file has at most two lines
parse(lines) ==
    parse_loop(IF Len(lines) > 2 THEN SubSeq(lines, 3, Len(lines)) ELSE <<>>,
               <<>>, <<>>, 0)

(***************************************************************************)
(* decimal.Decimal, restricted to plain signed decimal literals.  A value  *)
(* is coef * 10^(-frac): Decimal keeps the number of fractional digits of  *)
(* its operands, which the formatting below depends on.  Literals with an  *)
(* exponent, NaN and Infinity are outside the modelled alphabet.           *)
(***************************************************************************)
Digits == <<"0", "1", "2", "3", "4", "5", "6", "7", "8", "9">>

IsDigit(c) == \E i \in 1..10 : Digits[i] = c

DigitVal(c) == (CHOOSE i \in 1..10 : Digits[i] = c) - 1

RECURSIVE Pow10(_)
Pow10(n) == IF n = 0 THEN 1 ELSE 10 * Pow10(n - 1)

RECURSIVE DigitsToNat(_)
DigitsToNat(s) ==
    IF s = <<>> THEN 0
    ELSE 10 * DigitsToNat(SubSeq(s, 1, Len(s) - 1)) + DigitVal(s[Len(s)])

RECURSIVE NatToDigits(_)
NatToDigits(n) ==
    IF n < 10 THEN <<Digits[n + 1]>>
    ELSE Append(NatToDigits(n \div 10), Digits[(n % 10) + 1])

\* Decimal(str): ok is FALSE where the constructor raises InvalidOperation
Decimal(s) ==
    LET signed == Len(s) > 0 /\ s[1] \in {"-", "+"}
        body   == IF signed THEN Tail(s) ELSE s
        dots   == {i \in 1..Len(body) : body[i] = "."}
        digs   == SelectSeq(body, IsDigit)
        valid  == /\ \A i \in 1..Len(body) : IsDigit(body[i]) \/ body[i] = "."
                  /\ Cardinality(dots) <= 1
                  /\ Len(digs) >= 1
    IN  IF ~valid THEN [ok |-> FALSE, coef |-> 0, frac |-> 0]
        ELSE [ok   |-> TRUE,
              coef |-> (IF signed /\ s[1] = "-" THEN -1 ELSE 1) * DigitsToNat(digs),
              frac |-> IF dots = {} THEN 0
                       ELSE Len(body) - (CHOOSE i \in dots : TRUE)]

\* Decimal * 1000: the exponent of the integer 1000 is 0, so frac is kept
dec_mul(d, k) == [ok |-> TRUE, coef |-> d.coef * k, frac |-> d.frac]

\* Decimal + Decimal: the result carries the larger number of fractional digits
dec_add(a, b) ==
    LET f == IF a.frac > b.frac THEN a.frac ELSE b.frac
    IN  [ok   |-> TRUE,
         coef |-> a.coef * Pow10(f - a.frac) + b.coef * Pow10(f - b.frac),
         frac |-> f]

\* Decimal - Decimal
dec_sub(a, b) == dec_add(a, [b EXCEPT !.coef = -b.coef])

RECURSIVE Group3(_)
\* the ',' thousands separator of the format specification
Group3(ds) ==
    IF Len(ds) <= 3 THEN ds
    ELSE Group3(SubSeq(ds, 1, Len(ds) - 3)) \o <<",">> \o SubSeq(ds, Len(ds) - 2, Len(ds))

RECURSIVE ZeroPad(_, _)
ZeroPad(ds, width) == IF Len(ds) >= width THEN ds ELSE ZeroPad(<<"0">> \o ds, width)

\* "{:,}".format(d): sign, grouped integer digits, and exactly frac
\* fractional digits after a decimal point when frac > 0
format_grouped(d) ==
    LET abs   == IF d.coef < 0 THEN -d.coef ELSE d.coef
        whole == abs \div Pow10(d.frac)
        part  == abs % Pow10(d.frac)
    IN  (IF d.coef < 0 THEN <<"-">> ELSE <<>>)
        \o Group3(NatToDigits(whole))
        \o (IF d.frac > 0 THEN <<".">> \o ZeroPad(NatToDigits(part), d.frac) ELSE <<>>)

\* "{:,}".format(d).rstrip('0').rstrip('.')
display(d) == rstrip(rstrip(format_grouped(d), {"0"}), {"."})

(***************************************************************************)
(* HtmlFormatter.transform_in_place                                        *)
(***************************************************************************)
\* Decimal(record.<field>.replace(',', ''))
Numeric(record, field) == Decimal(remove(record[field], ","))

\* the four attributes transform_in_place reads, in the order it reads them
NumericFields == <<"open_del", "receivables", "special_liab", "cred_limit">>

\* the exception raised while reading the numeric attributes of a record:
\* the first statement that fails decides (AttributeError for an attribute
\* Record.__init__ never assigned, InvalidOperation for an unparsable one)
NumericException(record) ==
    LET bad(i) == \/ NumericFields[i] \notin DOMAIN record
                  \/ ~Numeric(record, NumericFields[i]).ok
    IN  IF \A i \in 1..4 : ~bad(i) THEN "none"
        ELSE LET k == CHOOSE i \in 1..4 : bad(i) /\ \A j \in 1..(i - 1) : ~bad(j)
             IN  IF NumericFields[k] \notin DOMAIN record
                 THEN "AttributeError" ELSE "InvalidOperation"

\* available without the parentheses: cred_limit - saldo + open_del
available_ungrouped(cred_limit, saldo, open_del) ==
    dec_add(dec_sub(cred_limit, saldo), open_del)

\* available = cred_limit - (saldo + open_del)
available_of(cred_limit, saldo, open_del) == dec_sub(cred_limit, dec_add(saldo, open_del))

\* the older draft's available with the grouping of this program
available_draft_grouped(cred_limit, saldo, open_del) ==
    dec_sub(cred_limit, dec_add(saldo, open_del))

\* the older draft: available = cred_limit - saldo + open_del
available_draft(cred_limit, saldo, open_del) ==
    dec_add(dec_sub(cred_limit, saldo), open_del)

\* the local variables of the loop body of transform_in_place
Derived(record) ==
    LET open_del     == dec_mul(Numeric(record, "open_del"), 1000)
        receivables  == Numeric(record, "receivables")
        special_liab == Numeric(record, "special_liab")
        cred_limit   == dec_mul(Numeric(record, "cred_limit"), 1000)
        saldo        == dec_add(receivables, special_liab)
    IN  [open_del   |-> open_del,
         saldo      |-> saldo,
         cred_limit |-> cred_limit,
         available  |-> available_of(cred_limit, saldo, open_del)]

\* the four assignments that end the loop body
TransformRecord(record) ==
    LET d == Derived(record)
    IN  [f \in DOMAIN record \cup {"saldo", "available"} |->
            IF f \in {"open_del", "saldo", "cred_limit", "available"}
            THEN display(d[f]) ELSE record[f]]

\* all records of the document in the order the two nested loops visit them
RECURSIVE Flatten(_)
Flatten(sections) ==
    IF sections = <<>> THEN <<>> ELSE Head(sections) \o Flatten(Tail(sections))

\* transform_in_place: exc is the exception that leaves the loops, if any
transform_in_place(sections) ==
    LET all == Flatten(sections)
        bad == {i \in 1..Len(all) : NumericException(all[i]) # "none"}
    IN  IF bad = {}
        THEN [exc      |-> "none",
              sections |-> [s \in 1..Len(sections) |->
                              [r \in 1..Len(sections[s]) |->
                                  TransformRecord(sections[s][r])]]]
        ELSE [exc      |-> NumericException(all[CHOOSE i \in bad : \A j \in bad : i <= j]),
              sections |-> sections]

(***************************************************************************)
(* HtmlFormatter: the rendered table.  A cell is tagged with the column    *)
(* whose write_cell call produced it; rowspan 0 stands for a <td> without  *)
(* a rowspan attribute.                                                    *)
(***************************************************************************)
\* the ten display columns, in the order write_section writes them
DisplayColumns == <<"cred_acct", "name1", "po_number", "credit_value", "open_del",
                    "saldo", "cred_limit", "available", "use", "next_date">>

\* all thirteen columns of a row
Columns == DisplayColumns \o <<"status", "approver", "owner">>

\* Section.is_same_values: "raise" where getattr raises AttributeError; the
\* loop returns False at the first difference without reading later records
is_same_values(records, param) ==
    IF param \notin DOMAIN records[1] THEN "raise"
    ELSE LET first == records[1][param]
             stop  == {i \in 2..Len(records) :
                          \/ param \notin DOMAIN records[i]
                          \/ records[i][param] # first}
         IN  IF stop = {} THEN "true"
             ELSE LET k == CHOOSE i \in stop : \A j \in stop : i <= j
                  IN  IF param \notin DOMAIN records[k] THEN "raise" ELSE "false"

\* write_cell with else in place of elif not same
write_cell_else(first_row, rowspan, same, value) ==
    IF first_row /\ same THEN <<[rowspan |-> rowspan, value |-> value]>>
    ELSE <<[rowspan |-> 0, value |-> value]>>

\* HtmlFormatter.write_cell: the cells it prints (none or one)
write_cell(first_row, rowspan, same, value) ==
    IF first_row /\ same THEN <<[rowspan |-> rowspan, value |-> value]>>
    ELSE IF ~same THEN <<[rowspan |-> 0, value |-> value]>>
    ELSE <<>>

\* the lookup with an empty owner in place of the sentinel
owner_of_blank(account_owners, cred_acct) ==
    IF cred_acct \in DOMAIN account_owners THEN account_owners[cred_acct] ELSE <<>>

\* owner = self.account_owners[record.cred_acct], 'UNKNOWN' on KeyError
owner_of(account_owners, cred_acct) ==
    IF cred_acct \in DOMAIN account_owners THEN account_owners[cred_acct]
    ELSE <<"U", "N", "K", "N", "O", "W", "N">>

\* the attribute of the record that the write_cell call of a column reads
\* (none for the two blank columns)
AttrRead(col) ==
    IF col \in {"status", "approver"} THEN "none"
    ELSE IF col = "owner" THEN "cred_acct" ELSE col

RECURSIVE write_row(_, _, _, _, _, _, _)
\* one iteration of the loop of write_section, from column j on: the row
\* stays unclosed when reading an attribute raises AttributeError
write_row(record, first_row, rowspan, same, account_owners, j, cells) ==
    IF j > Len(Columns) THEN [cells |-> cells, closed |-> TRUE]
    ELSE LET col == Columns[j]
         IN  IF AttrRead(col) # "none" /\ AttrRead(col) \notin DOMAIN record
             THEN [cells |-> cells, closed |-> FALSE]
             ELSE LET value   == IF col \in {"status", "approver"} THEN <<>>
                                 ELSE IF col = "owner"
                                 THEN owner_of(account_owners, record["cred_acct"])
                                 ELSE record[col]
                      same_c  == IF col \in {"status", "approver"} THEN TRUE
                                 ELSE IF col = "owner" THEN same["cred_acct"]
                                 ELSE same[col]
                      written == write_cell(first_row, rowspan, same_c, value)
                  IN  write_row(record, first_row, rowspan, same, account_owners, j + 1,
                                cells \o [i \in 1..Len(written) |->
                                            [col     |-> col,
                                             rowspan |-> written[i].rowspan,
                                             value   |-> written[i].value]])

RECURSIVE write_rows(_, _, _, _, _)
\* the loop of write_section with first_row true in every iteration
write_rows_all_first(records, same, account_owners, r, rows) ==
    IF r > Len(records) THEN [rows |-> rows, exc |-> "none"]
    ELSE LET row == write_row(records[r], TRUE, Len(records), same,
                              account_owners, 1, <<>>)
             tr  == [class |-> "row", cells |-> row.cells, closed |-> row.closed]
         IN  IF row.closed
             THEN write_rows(records, same, account_owners, r + 1, Append(rows, tr))
             ELSE [rows |-> Append(rows, tr), exc |-> "AttributeError"]

\* the loop of write_section from record r on
write_rows(records, same, account_owners, r, rows) ==
    IF r > Len(records) THEN [rows |-> rows, exc |-> "none"]
    ELSE LET row == write_row(records[r], r = 1, Len(records), same,
                              account_owners, 1, <<>>)
             tr  == [class |-> "row", cells |-> row.cells, closed |-> row.closed]
         IN  IF row.closed
             THEN write_rows(records, same, account_owners, r + 1, Append(rows, tr))
             ELSE [rows |-> Append(rows, tr), exc |-> "AttributeError"]

\* HtmlFormatter.write_section
write_section(records, account_owners) ==
    LET verdict == [c \in {DisplayColumns[i] : i \in 1..Len(DisplayColumns)} |->
                       is_same_values(records, c)]
    IN  IF \E c \in DOMAIN verdict : verdict[c] = "raise"
        THEN [rows |-> <<>>, exc |-> "AttributeError"]
        ELSE write_rows(records, [c \in DOMAIN verdict |-> verdict[c] = "true"],
                        account_owners, 1, <<>>)

\* the spacer row printed after each section
SpaceRow == [class |-> "space", cells |-> <<>>, closed |-> TRUE]

RECURSIVE write_data(_, _, _, _)
\* HtmlFormatter.write_data from section s on
write_data(sections, account_owners, s, rows) ==
    IF s > Len(sections) THEN [rows |-> rows, exc |-> "none"]
    ELSE LET sec == write_section(sections[s], account_owners)
         IN  IF sec.exc = "none"
             THEN write_data(sections, account_owners, s + 1,
                             Append(rows \o sec.rows, SpaceRow))
             ELSE [rows |-> rows \o sec.rows, exc |-> sec.exc]

\* HtmlFormatter.format: header, data and footer; the footer is missing when
\* write_data raised
format(sections, account_owners) ==
    LET data == write_data(sections, account_owners, 1, <<>>)
    IN  [exc |-> data.exc,
         fw  |-> [header |-> TRUE, rows |-> data.rows, footer |-> data.exc = "none"]]

\* the output file before open(output_path, mode='w')
NoFile == [header |-> FALSE, rows |-> <<>>, footer |-> FALSE]

\* format_one_file: parse, transform_in_place, then format into the opened
\* output file; the output file is not opened when transform_in_place raises
format_one_file(input_lines, account_owners) ==
    LET parsed      == parse(input_lines)
        transformed == transform_in_place(parsed.sections)
        formatted   == format(transformed.sections, account_owners)
    IN  [data_file   |-> parsed.sections,
         errs        |-> parsed.errs,
         transformed |-> IF transformed.exc = "none" THEN transformed.sections ELSE <<>>,
         opened      |-> transformed.exc = "none",
         fw          |-> IF transformed.exc = "none" THEN formatted.fw ELSE NoFile,
         exc         |-> IF transformed.exc # "none" THEN transformed.exc
                         ELSE formatted.exc]

\* the values transform_in_place computes for every record, kept for the
\* records of a document it transforms without an exception
derived_of(sections) ==
    [s \in 1..Len(sections) |->
        [r \in 1..Len(sections[s]) |-> Derived(sections[s][r])]]

(***************************************************************************)
(* read_account_owners                                                     *)
(***************************************************************************)
RECURSIVE owners_loop(_, _)
\* the for loop of read_account_owners: a later line for the same account
\* replaces the earlier one; a line with a single part raises IndexError
\* before the assignment and leaves the dictionary unchanged
owners_loop(rest, account_owners) ==
    IF rest = <<>> THEN account_owners
    ELSE LET parts == Parts(Head(rest))
         IN  owners_loop(Tail(rest),
                 IF Len(parts) >= 2
                 THEN [k \in DOMAIN account_owners \cup {parts[1]} |->
                          IF k = parts[1] THEN parts[2] ELSE account_owners[k]]
                 ELSE account_owners)

\* the empty dict()
EmptyDict == [k \in {} |-> <<>>]

\* read_account_owners for an owners file that can be opened, or for None
read_account_owners(owners_file) ==
    IF ~owners_file.given THEN EmptyDict
    ELSE owners_loop(owners_file.lines, EmptyDict)

(***************************************************************************)
(* format_multiple_files: the output path                                  *)
(***************************************************************************)
\* str.rfind(".") == -1
no_dot(file) == \A i \in 1..Len(file) : file[i] # "."

\* re.sub(r'[^.]+$', 'html', path): the longest dot-free suffix is replaced
\* when it is not empty; otherwise nothing matches and path is returned
sub_extension(path) ==
    LET k == CHOOSE n \in 0..Len(path) :
                 /\ \A i \in (Len(path) - n + 1)..Len(path) : path[i] # "."
                 /\ (n = Len(path) \/ path[Len(path) - n] = ".")
    IN  IF k = 0 THEN path
        ELSE SubSeq(path, 1, Len(path) - k) \o <<"h", "t", "m", "l">>

\* os.path.join(dir, file) for a relative file name
path_join(dir, file) ==
    IF dir # <<>> /\ dir[Len(dir)] = "/" THEN dir \o file ELSE dir \o <<"/">> \o file

\* the output path with the substitution applied to every name
output_path_always_sub(output_dir, file) == sub_extension(path_join(output_dir, file))

\* the output path format_multiple_files computes for a file name
output_path_of(output_dir, file) ==
    IF no_dot(file)
    THEN path_join(output_dir, file) \o <<".", "h", "t", "m", "l">>
    ELSE sub_extension(path_join(output_dir, file))

(***************************************************************************)
(* inc_saved_time.  The counter file is its existence, its permissions and *)
(* its text: an integer, or (is_int FALSE) a text that int() rejects.       *)
(***************************************************************************)
\* the value read: 0 after IOError (missing, unreadable) or ValueError
saved_time_read(counter) ==
    IF counter.exists /\ counter.readable /\ counter.is_int
    THEN counter.text ELSE 0

\* inc_saved_time that starts from zero whatever the file holds
inc_saved_time_reset(counter) ==
    IF counter.writable
    THEN [counter EXCEPT !.text = SAVED_MINUTES_PER_RUN,
                         !.is_int = TRUE,
                         !.readable = IF counter.exists THEN @ ELSE TRUE,
                         !.exists = TRUE]
    ELSE counter

\* inc_saved_time that returns after a failed read without writing
inc_saved_time_gives_up(counter) ==
    IF counter.writable /\ counter.exists /\ counter.readable /\ counter.is_int
    THEN [counter EXCEPT !.text = counter.text + SAVED_MINUTES_PER_RUN]
    ELSE counter

\* the warnings inc_saved_time prints: one of the two except branches of the
\* read, and the except branch of the write
inc_saved_time_warnings(counter) ==
    (IF ~counter.exists \/ ~counter.readable THEN {"Reading of saved time failed"}
     ELSE IF ~counter.is_int THEN {"Broken saved time"} ELSE {})
    \cup (IF counter.writable THEN {} ELSE {"Writing of saved time failed"})

\* inc_saved_time: the counter file it leaves; a failed write is a warning
inc_saved_time(counter) ==
    LET saved_time == saved_time_read(counter) + SAVED_MINUTES_PER_RUN
    IN  IF counter.writable
        THEN [counter EXCEPT !.text = saved_time,
                             !.is_int = TRUE,
                             !.readable = IF counter.exists THEN @ ELSE TRUE,
                             !.exists = TRUE]
        ELSE counter

(***************************************************************************)
(* Inputs the model draws from.                                            *)
(***************************************************************************)
RECURSIVE JoinFields(_)
JoinFields(fields) ==
    IF Len(fields) = 1 THEN Head(fields)
    ELSE Head(fields) \o <<RECORDS_DELIMITER>> \o JoinFields(Tail(fields))

\* a line as readlines() returns it
Line(fields) == JoinFields(fields) \o <<"\n">>

\* the eleven fields of a record line
Fields(sorg, acct, name, po, od, rec, cl, date) ==
    <<sorg, acct, name, po, <<"5">>, od, rec, <<"2">>, cl, <<"U">>, date>>

\* the record of the arithmetic example: open_del 1.5, receivables 10,
\* special_liab 2, cred_limit 20
LineA == Line(Fields(<<"S">>, <<"A">>, <<" ", "N">>, <<"P">>, <<"1", ".", "5">>,
                     <<"1", "0">>, <<"2", "0">>, <<"D">>))
\* another account, thousands separator in receivables
LineB == Line(Fields(<<"S">>, <<"B">>, <<"N">>, <<"Q">>, <<"0">>,
                     <<"1", ",", "0", "0", "0">>, <<"2", "0">>, <<"E">>))
\* three fields only
LineShort == Line(<<<<"S">>, <<"A">>, <<"N">>>>)
\* eleven fields, the last one empty
LineLastEmpty == Line(Fields(<<"S">>, <<"A">>, <<"N">>, <<"P">>, <<"1", ".", "5">>,
                             <<"1", "0">>, <<"2", "0">>, <<>>))
\* eleven fields, the first one empty
LineFirstEmpty == Line(Fields(<<>>, <<"A">>, <<"N">>, <<"P">>, <<"1", ".", "5">>,
                              <<"1", "0">>, <<"2", "0">>, <<"D">>))
\* eleven fields, open_del is not a number
LineNaN == Line(Fields(<<"S">>, <<"A">>, <<"N">>, <<"P">>, <<"x">>,
                       <<"1", "0">>, <<"2", "0">>, <<"D">>))
LineBlank == <<"\n">>
LineStar == <<"*", "\n">>

BodyLines == {LineA, LineB, LineShort, LineLastEmpty, LineFirstEmpty, LineNaN,
              LineBlank, LineStar}

\* the two header lines of an export
Header == <<<<"h", "\n">>, <<"h", "\n">>>>

SeqsUpTo(S, n) == UNION {[1..k -> S] : k \in 0..n}

\* input files with at most n lines after the header
Contents(n) == {Header \o body : body \in SeqsUpTo(BodyLines, n)}

\* first two lines of an input file: a plain header, and lines that would be
\* records or delimiters anywhere else
Headers == {Header, <<LineA, LineStar>>, <<LineStar, LineShort>>}

\* input files for the parser: any two first lines and at most n lines after
\* them, and files of fewer than two lines
ParserInputs(n) ==
    {hd \o body : hd \in Headers, body \in SeqsUpTo(BodyLines, n)}
    \cup {<<>>, <<LineA>>}

\* lines of an owners file: two names for account A, and a line of one field
OwnerLines == {<<"A", "\t", "a", "n", "n", "\n">>,
               <<" ", "A", "\t", "b", "o", "b", "\t", "x", "\n">>,
               <<"B", "\n">>}

\* the --owners argument when it is not given, and when the file is missing
NoOwnersFile == [given |-> FALSE, exists |-> FALSE, lines |-> <<>>]
MissingOwnersFile == [given |-> TRUE, exists |-> FALSE, lines |-> <<>>]

\* owners files of at most MaxOwnerLines lines
OwnersFiles ==
    {[given |-> TRUE, exists |-> TRUE, lines |-> ls] :
        ls \in SeqsUpTo(OwnerLines, MaxOwnerLines)}

\* the --owners argument of the whole-run specification
RunOwnersFiles ==
    {NoOwnersFile, MissingOwnersFile,
     [given |-> TRUE, exists |-> TRUE,
      lines |-> <<<<"A", "\t", "a", "n", "n", "\n">>, <<"B", "\n">>>>]}

\* the input files of the whole-run specification: one line after the header
RunContents == Contents(1)

\* names of the files of the input directory
FileNames == {<<"a">>, <<"a", ".", "t">>, <<"a", ".">>, <<"b">>}

\* what os.listdir can return: distinct names in any order
Listings == {fs \in SeqsUpTo(FileNames, MaxFiles) :
                \A i, j \in 1..Len(fs) : i # j => fs[i] # fs[j]}

\* the --output-dir argument
OutputDirs == {<<"o">>, <<"o", ".", "d">>}

\* the --counter argument: not given, or a file that is missing, unreadable,
\* or holds garbage or an integer, in a place that can or cannot be written
CounterFiles ==
    {[given |-> FALSE, exists |-> FALSE, readable |-> FALSE, writable |-> FALSE,
      is_int |-> FALSE, text |-> 0]}
    \cup {[given |-> TRUE, exists |-> FALSE, readable |-> FALSE, writable |-> w,
           is_int |-> FALSE, text |-> 0] : w \in BOOLEAN}
    \cup {[given |-> TRUE, exists |-> TRUE, readable |-> FALSE, writable |-> w,
           is_int |-> TRUE, text |-> 7] : w \in BOOLEAN}
    \cup {[given |-> TRUE, exists |-> TRUE, readable |-> TRUE, writable |-> w,
           is_int |-> FALSE, text |-> 0] : w \in BOOLEAN}
    \cup {[given |-> TRUE, exists |-> TRUE, readable |-> TRUE, writable |-> w,
           is_int |-> TRUE, text |-> 7] : w \in BOOLEAN}

(***************************************************************************)
(* State.                                                                  *)
(***************************************************************************)
VARIABLES
    pc,              \* position of the program
    runs,            \* runs of the tool started so far
    owners_file,     \* the --owners argument
    counter_file,    \* the --counter argument and the file behind it
    counter_start,   \* the counter file before the first run
    executions,      \* calls of inc_saved_time so far
    output_dir,      \* the --output-dir argument of the run
    file_names,      \* get_files_in_directory(args.input_dir)
    next_file,       \* index into file_names of the file formatted next
    account_owners,  \* the dictionary read_account_owners returns
    written,         \* the open(output_path, 'w') calls of the run, in order
    input_lines,     \* format_one_file: the lines of the input file
    data_file,       \* the sections Parser.parse returns
    errs,            \* diagnostics Record.__init__ printed for the file
    derived,         \* the values transform_in_place computed
    transformed,     \* the sections after transform_in_place
    fw,              \* the output file of format_one_file
    exc,             \* the exception that ended the program, "none" if none
    warnings         \* the warnings inc_saved_time printed in this run

vars == <<pc, runs, owners_file, counter_file, counter_start, executions, output_dir,
          file_names, next_file, account_owners, written, input_lines, data_file,
          errs, derived, transformed, fw, exc, warnings>>

run_vars == <<runs, owners_file, counter_file, counter_start, executions, output_dir,
              file_names, next_file, written, warnings>>

\* the locals of format_one_file before the function is called
NoLocals ==
    /\ input_lines = <<>>
    /\ data_file = <<>>
    /\ errs = 0
    /\ derived = <<>>
    /\ transformed = <<>>
    /\ fw = NoFile

ClearLocals ==
    /\ input_lines' = <<>>
    /\ data_file' = <<>>
    /\ errs' = 0
    /\ derived' = <<>>
    /\ transformed' = <<>>
    /\ fw' = NoFile

(***************************************************************************)
(* The whole run: main, format_multiple_files, inc_saved_time.             *)
(***************************************************************************)
Init ==
    /\ pc = "start"
    /\ runs = 1
    /\ owners_file \in RunOwnersFiles
    /\ counter_file \in CounterFiles
    /\ counter_start = counter_file
    /\ executions = 0
    /\ output_dir = <<>>
    /\ file_names = <<>>
    /\ next_file = 1
    /\ account_owners = EmptyDict
    /\ written = <<>>
    /\ exc = "none"
    /\ warnings = {}
    /\ NoLocals

\* main up to the call of format_multiple_files: os.listdir raises
\* FileNotFoundError for a missing input directory; nothing is done for an
\* empty one
Main ==
    /\ pc = "start"
    /\ \E dir_exists \in BOOLEAN, listing \in Listings, out \in OutputDirs :
          /\ output_dir' = out
          /\ IF ~dir_exists
             THEN /\ pc' = "fatal"
                  /\ exc' = "FileNotFoundError"
                  /\ file_names' = <<>>
             ELSE /\ file_names' = listing
                  /\ exc' = "none"
                  /\ pc' = IF Len(listing) > 0 THEN "owners" ELSE "done"
    /\ next_file' = 1
    /\ UNCHANGED <<runs, owners_file, counter_file, counter_start, executions,
                   account_owners, written, input_lines, data_file, errs, derived,
                   transformed, fw, warnings>>

\* format_multiple_files: account_owners = read_account_owners(args.owners_file)
ReadAccountOwners ==
    /\ pc = "owners"
    /\ IF owners_file.given /\ ~owners_file.exists
       THEN /\ pc' = "fatal"
            /\ exc' = "FileNotFoundError"
            /\ UNCHANGED account_owners
       ELSE /\ pc' = "files"
            /\ account_owners' = read_account_owners(owners_file)
            /\ UNCHANGED exc
    /\ UNCHANGED <<run_vars, input_lines, data_file, errs, derived, transformed, fw>>

\* one iteration of the loop of format_multiple_files: the output path and
\* format_one_file; an exception other than FileNotFoundError and
\* KeyboardInterrupt is not caught by the module and ends the program
FormatOneFile ==
    /\ pc = "files"
    /\ \E lines \in RunContents :
        \E res \in {format_one_file(lines, account_owners)} :
          LET file == file_names[next_file]
          IN  /\ input_lines' = lines
              /\ data_file' = res.data_file
              /\ errs' = res.errs
              /\ transformed' = res.transformed
              /\ derived' = IF res.opened THEN derived_of(res.data_file) ELSE <<>>
              /\ fw' = res.fw
              /\ exc' = res.exc
              /\ written' = IF res.opened
                            THEN Append(written,
                                        [input  |-> file,
                                         output |-> output_path_of(output_dir, file)])
                            ELSE written
              /\ next_file' = next_file + 1
              /\ pc' = IF res.exc # "none" THEN "crashed"
                       ELSE IF next_file = Len(file_names) THEN "counter"
                       ELSE "files"
    /\ UNCHANGED <<runs, owners_file, counter_file, counter_start, executions,
                   output_dir, file_names, account_owners, warnings>>

\* main after format_multiple_files: inc_saved_time when --counter is given
IncSavedTime ==
    /\ pc = "counter"
    /\ pc' = "done"
    /\ IF counter_file.given
       THEN /\ counter_file' = inc_saved_time(counter_file)
            /\ warnings' = inc_saved_time_warnings(counter_file)
            /\ executions' = executions + 1
       ELSE UNCHANGED <<counter_file, executions, warnings>>
    /\ ClearLocals
    /\ UNCHANGED <<runs, owners_file, counter_start, output_dir, file_names,
                   next_file, account_owners, written, exc>>

\* KeyboardInterrupt while the program runs
Interrupt ==
    /\ pc \in {"start", "owners", "files", "counter"}
    /\ pc' = "fatal"
    /\ exc' = "KeyboardInterrupt"
    /\ ClearLocals
    /\ UNCHANGED <<run_vars, account_owners>>

\* the tool is run again over the same counter file
NextRun ==
    /\ pc \in {"done", "fatal", "crashed"}
    /\ runs < MaxRuns
    /\ runs' = runs + 1
    /\ pc' = "start"
    /\ exc' = "none"
    /\ output_dir' = <<>>
    /\ file_names' = <<>>
    /\ next_file' = 1
    /\ account_owners' = EmptyDict
    /\ written' = <<>>
    /\ warnings' = {}
    /\ ClearLocals
    /\ UNCHANGED <<owners_file, counter_file, counter_start, executions>>

Next ==
    \/ Main
    \/ ReadAccountOwners
    \/ FormatOneFile
    \/ IncSavedTime
    \/ Interrupt
    \/ NextRun

Spec == Init /\ [][Next]_vars

(***************************************************************************)
(* One file, step by step: the three calls of format_one_file applied to   *)
(* every input file of at most MaxLines lines and every owners file.       *)
(***************************************************************************)
InitFile ==
    /\ pc = "read"
    /\ runs = 1
    /\ owners_file \in OwnersFiles \cup {NoOwnersFile}
    /\ counter_file \in {c \in CounterFiles : ~c.given}
    /\ counter_start = counter_file
    /\ executions = 0
    /\ output_dir = <<"o">>
    /\ file_names = <<<<"a", ".", "t">>>>
    /\ next_file = 1
    /\ account_owners = read_account_owners(owners_file)
    /\ written = <<>>
    /\ exc = "none"
    /\ warnings = {}
    /\ input_lines \in Contents(MaxLines)
    /\ data_file = <<>>
    /\ errs = 0
    /\ derived = <<>>
    /\ transformed = <<>>
    /\ fw = NoFile

\* data_file = parser.parse(input_lines)
ParseStep ==
    /\ pc = "read"
    /\ pc' = "parsed"
    /\ \E parsed \in {parse(input_lines)} :
          /\ data_file' = parsed.sections
          /\ errs' = parsed.errs
    /\ UNCHANGED <<run_vars, account_owners, input_lines, derived, transformed, fw, exc>>

\* formatter.transform_in_place(data_file)
TransformStep ==
    /\ pc = "parsed"
    /\ \E res \in {transform_in_place(data_file)} :
           /\ exc' = res.exc
           /\ pc' = IF res.exc = "none" THEN "transformed" ELSE "crashed"
           /\ transformed' = IF res.exc = "none" THEN res.sections ELSE <<>>
           /\ derived' = IF res.exc = "none" THEN derived_of(data_file) ELSE <<>>
    /\ UNCHANGED <<run_vars, account_owners, input_lines, data_file, errs, fw>>

\* with open(output_path, mode='w') as fw: formatter.format(data_file, fw)
FormatStep ==
    /\ pc = "transformed"
    /\ \E res \in {format(transformed, account_owners)} :
           /\ fw' = res.fw
           /\ exc' = res.exc
           /\ pc' = IF res.exc = "none" THEN "formatted" ELSE "crashed"
    /\ written' = Append(written, [input  |-> file_names[next_file],
                                   output |-> output_path_of(output_dir,
                                                             file_names[next_file])])
    /\ UNCHANGED <<runs, owners_file, counter_file, counter_start, executions,
                   output_dir, file_names, next_file, account_owners, input_lines,
                   data_file, errs, derived, transformed, warnings>>

NextFile ==
    \/ ParseStep
    \/ TransformStep
    \/ FormatStep

SpecFile == InitFile /\ [][NextFile]_vars

(***************************************************************************)
(* Reading the input and the output back, independently of the code above. *)
(***************************************************************************)
\* positions of the tabs of a text
TabsOf(text) == {i \in 1..Len(text) : text[i] = "\t"}

\* number of tab-separated fields of a text
FieldCount(text) == Cardinality(TabsOf(text)) + 1

\* the k-th tab-separated field of a text, untrimmed
FieldAt(text, k) ==
    LET before(i) == Cardinality({t \in TabsOf(text) : t < i})
        from == IF k = 1 THEN 1
                ELSE 1 + CHOOSE t \in TabsOf(text) : before(t) = k - 2
        to   == IF k = FieldCount(text) THEN Len(text)
                ELSE (CHOOSE t \in TabsOf(text) : before(t) = k - 1) - 1
    IN  SubSeq(text, from, to)

\* the text without the whitespace around it
Trimmed(text) ==
    LET inked == {i \in 1..Len(text) : text[i] \notin Whitespace}
    IN  IF inked = {} THEN <<>>
        ELSE SubSeq(text, CHOOSE i \in inked : \A j \in inked : i <= j,
                          CHOOSE i \in inked : \A j \in inked : j <= i)

\* a line of the input that stands for a record: neither blank nor a delimiter
IsRecordLine(line) == Trimmed(line) # <<>> /\ Trimmed(line)[1] # "*"

\* the record lines after the two header lines, as indexes into input_lines
RecordLineIndexes == {i \in 3..Len(input_lines) : IsRecordLine(input_lines[i])}

\* the record parsed from input line i: the records of the document, in
\* order, come from the record lines, in order
RecordOfLine(i) ==
    Flatten(data_file)[Cardinality({j \in RecordLineIndexes : j <= i})]

AllFields == {FieldNames[k] : k \in 1..Len(FieldNames)}

\* index in fw.rows of the row before the first row of section s
RECURSIVE RowOffset(_)
RowOffset(s) == IF s = 1 THEN 0 ELSE RowOffset(s - 1) + Len(transformed[s - 1]) + 1

\* the cells of column col in row r of section s
CellsOf(s, r, col) ==
    SelectSeq(fw.rows[RowOffset(s) + r].cells, LAMBDA cell : cell.col = col)

\* all records of section s show the same value in column col
Uniform(s, col) ==
    \A i, j \in 1..Len(transformed[s]) : transformed[s][i][col] = transformed[s][j][col]

\* the document was rendered to the end
Rendered == fw.footer

(***************************************************************************)
(* C1: every record line with fewer than 11 tab-separated fields is        *)
(* dropped, so the parsed document holds exactly one record for each       *)
(* record line of at least 11 fields.                                      *)
(***************************************************************************)
C1_MalformedLinesDropped ==
    pc # "read" =>
        Len(Flatten(data_file)) =
            Cardinality({i \in RecordLineIndexes : FieldCount(input_lines[i]) >= 11})

(***************************************************************************)
(* C2: every section of the parsed document holds at least one valid       *)
(* record of 11 fields; a run of lines without one yields no section.      *)
(***************************************************************************)
C2_SectionsHoldValidRecord ==
    \A s \in 1..Len(data_file) :
        \E r \in 1..Len(data_file[s]) : DOMAIN data_file[s][r] = AllFields

(***************************************************************************)
(* C3: in a rendered section of N records, a display column whose value is *)
(* the same in all N records has one cell, on the first row, with rowspan  *)
(* N, and any other display column has one plain cell on each row.         *)
(***************************************************************************)
C3_RowSpanPerColumn ==
    Rendered =>
        \A s \in 1..Len(transformed) :
            LET N == Len(transformed[s])
            IN  /\ \A r \in 1..N : fw.rows[RowOffset(s) + r].class = "row"
                /\ fw.rows[RowOffset(s) + N + 1].class = "space"
                /\ \A k \in 1..Len(DisplayColumns) :
                      LET col == DisplayColumns[k]
                      IN  IF Uniform(s, col)
                          THEN /\ Len(CellsOf(s, 1, col)) = 1
                               /\ CellsOf(s, 1, col)[1].rowspan = N
                               /\ \A r \in 2..N : CellsOf(s, r, col) = <<>>
                          ELSE \A r \in 1..N :
                                  /\ Len(CellsOf(s, r, col)) = 1
                                  /\ CellsOf(s, r, col)[1].rowspan = 0

\* a rendered section of two records with a merged and an unmerged column
C3_Witness ==
    /\ Rendered
    /\ \E s \in 1..Len(transformed) :
          /\ Len(transformed[s]) >= 2
          /\ Uniform(s, "name1")
          /\ ~Uniform(s, "open_del")
          /\ CellsOf(s, 2, "name1") = <<>>
          /\ Len(CellsOf(s, 2, "open_del")) = 1

(***************************************************************************)
(* C4: transform_in_place computes open_del * 1000, cred_limit * 1000,     *)
(* saldo = receivables + special_liab and available = cred_limit * 1000 -  *)
(* (saldo + open_del * 1000); 1.5, 10, 2 and 20 give 1500, 12, 20000 and   *)
(* 18488.  Numbers are compared in thousandths.                            *)
(***************************************************************************)
\* a Decimal in thousandths
Milli(d) == d.coef * Pow10(3 - d.frac)

\* an unsigned decimal numeral with thousands separators, in thousandths
NumeralMilli(text) ==
    LET t    == SelectSeq(text, LAMBDA c : c # ",")
        dots == {i \in 1..Len(t) : t[i] = "."}
        dot  == IF dots = {} THEN Len(t) + 1 ELSE CHOOSE i \in dots : TRUE
        frac == SubSeq(t, dot + 1, Len(t))
    IN  DigitsToNat(SubSeq(t, 1, dot - 1)) * 1000 + DigitsToNat(frac) * Pow10(3 - Len(frac))

C4_DerivedValues ==
    \A s \in 1..Len(derived) : \A r \in 1..Len(derived[s]) :
        LET raw          == data_file[s][r]
            d            == derived[s][r]
            open_del     == NumeralMilli(raw["open_del"])
            receivables  == NumeralMilli(raw["receivables"])
            special_liab == NumeralMilli(raw["special_liab"])
            cred_limit   == NumeralMilli(raw["cred_limit"])
        IN  /\ Milli(d.open_del) = open_del * 1000
            /\ Milli(d.cred_limit) = cred_limit * 1000
            /\ Milli(d.saldo) = receivables + special_liab
            /\ Milli(d.available) =
                   cred_limit * 1000 - ((receivables + special_liab) + open_del * 1000)
            /\ (/\ raw["open_del"] = <<"1", ".", "5">>
                /\ raw["receivables"] = <<"1", "0">>
                /\ raw["special_liab"] = <<"2">>
                /\ raw["cred_limit"] = <<"2", "0">>)
               => /\ Milli(d.open_del) = 1500000
                  /\ Milli(d.saldo) = 12000
                  /\ Milli(d.cred_limit) = 20000000
                  /\ Milli(d.available) = 18488000

\* transform_in_place has computed the values of the record of the example
C4_Witness ==
    /\ pc \in {"transformed", "formatted"}
    /\ \E s \in 1..Len(derived) : \E r \in 1..Len(derived[s]) :
          /\ data_file[s][r]["open_del"] = <<"1", ".", "5">>
          /\ data_file[s][r]["cred_limit"] = <<"2", "0">>
          /\ Milli(derived[s][r].available) = 18488000

(***************************************************************************)
(* C5: the record decoded from a line of at least 11 tab-separated fields  *)
(* holds, under the i-th field name, the trimmed i-th field of the line,   *)
(* also when the first or the last field is empty.                         *)
(***************************************************************************)
C5_FieldsInOrder ==
    pc # "read" =>
        \A i \in RecordLineIndexes :
            FieldCount(input_lines[i]) >= 11 =>
                \A k \in 1..Len(FieldNames) :
                    /\ FieldNames[k] \in DOMAIN RecordOfLine(i)
                    /\ RecordOfLine(i)[FieldNames[k]] = Trimmed(FieldAt(input_lines[i], k))

(***************************************************************************)
(* C6: the owner cell that covers a record shows the name the owners file  *)
(* maps the record's account to, "UNKNOWN" when it maps none; owners-file  *)
(* lines of fewer than two fields create no mapping.                       *)
(***************************************************************************)
\* indexes of the owners-file lines that map account acct
OwnerHits(acct) ==
    {i \in 1..Len(owners_file.lines) :
        /\ FieldCount(owners_file.lines[i]) >= 2
        /\ Trimmed(FieldAt(owners_file.lines[i], 1)) = acct}

\* the owner the owners file gives for an account: its last mapping
ExpectedOwner(acct) ==
    IF ~owners_file.given \/ OwnerHits(acct) = {}
    THEN <<"U", "N", "K", "N", "O", "W", "N">>
    ELSE Trimmed(FieldAt(owners_file.lines[CHOOSE i \in OwnerHits(acct) :
                                              \A j \in OwnerHits(acct) : j <= i], 2))

\* the row of section s whose owner cell covers record r
OwnerRow(s, r) == IF CellsOf(s, r, "owner") # <<>> THEN r ELSE 1

C6_OwnerCell ==
    /\ DOMAIN account_owners =
           {Trimmed(FieldAt(owners_file.lines[i], 1)) :
               i \in {j \in 1..Len(owners_file.lines) :
                         FieldCount(owners_file.lines[j]) >= 2}}
    /\ Rendered =>
          \A s \in 1..Len(transformed) : \A r \in 1..Len(transformed[s]) :
              /\ Len(CellsOf(s, OwnerRow(s, r), "owner")) = 1
              /\ CellsOf(s, OwnerRow(s, r), "owner")[1].value =
                     ExpectedOwner(transformed[s][r]["cred_acct"])

\* a rendered section shows a mapped owner beside an unmapped account, read
\* from an owners file that also holds a malformed line
C6_Witness ==
    /\ Rendered
    /\ \E i \in 1..Len(owners_file.lines) : FieldCount(owners_file.lines[i]) < 2
    /\ \E s \in 1..Len(transformed) :
          /\ Len(transformed[s]) = 2
          /\ CellsOf(s, 1, "owner")[1].value = <<"a", "n", "n">>
          /\ CellsOf(s, 2, "owner") # <<>>
          /\ CellsOf(s, 2, "owner")[1].value = <<"U", "N", "K", "N", "O", "W", "N">>

(***************************************************************************)
(* C7: every run with a counter file adds 30 to the integer in the file:   *)
(* from a file holding c, the file holds c + 30 * k after k runs.          *)
(***************************************************************************)
\* the counter file held a readable integer before the first run
CounterStartsAsInteger ==
    /\ counter_start.given
    /\ counter_start.exists
    /\ counter_start.readable
    /\ counter_start.is_int

C7_EveryRunAdds ==
    (pc = "done" /\ CounterStartsAsInteger /\ counter_start.writable) =>
        /\ counter_file.is_int
        /\ counter_file.text = counter_start.text + SAVED_MINUTES_PER_RUN * runs

(***************************************************************************)
(* C7 as amended: a run adds 30 when it found at least one input file and  *)
(* formatted every file, and the counter file can be written; a run that   *)
(* found no input file, or ended before the counter was reached, leaves    *)
(* the counter file unchanged.  After k runs that called inc_saved_time a  *)
(* writable file that held c holds c + 30 * k.                             *)
(***************************************************************************)
C7_RunThatFormatsAdds ==
    CounterStartsAsInteger =>
        /\ executions <= runs
        /\ (pc = "done" /\ runs = 1) => (executions = 1 <=> Len(file_names) > 0)
        /\ (pc \in {"fatal", "crashed"} /\ runs = 1) => executions = 0
        /\ counter_file.is_int
        /\ counter_file.text =
               IF counter_start.writable
               THEN counter_start.text + SAVED_MINUTES_PER_RUN * executions
               ELSE counter_start.text

\* two runs have incremented a counter file that held 7
C7_Witness ==
    /\ pc = "done"
    /\ runs = 2
    /\ executions = 2
    /\ counter_start.text = 7
    /\ counter_file.text = 67

(***************************************************************************)
(* C8: an error in a line or a record never ends the run: the only         *)
(* outcomes that abort it are file-not-found and user interrupt.           *)
(***************************************************************************)
C8_OnlyNotFoundAndInterruptAbort ==
    /\ pc # "crashed"
    /\ exc \in {"none", "FileNotFoundError", "KeyboardInterrupt"}

(***************************************************************************)
(* C9: the output path of an input file is the output directory joined     *)
(* with the name whose final extension is replaced by html (.html appended *)
(* to a name without a dot), so every output file name ends in .html.      *)
(***************************************************************************)
\* position of the last dot of a name, 0 when it has none
LastDot(name) ==
    LET dots == {i \in 1..Len(name) : name[i] = "."}
    IN  IF dots = {} THEN 0 ELSE CHOOSE i \in dots : \A j \in dots : j <= i

\* the name without its final extension and the dot before it
Base(name) == IF LastDot(name) = 0 THEN name ELSE SubSeq(name, 1, LastDot(name) - 1)

EndsWith(text, suffix) ==
    /\ Len(text) >= Len(suffix)
    /\ SubSeq(text, Len(text) - Len(suffix) + 1, Len(text)) = suffix

C9_OutputEndsInHtml ==
    \A i \in 1..Len(written) :
        /\ written[i].output =
               output_dir \o <<"/">> \o Base(written[i].input) \o <<".", "h", "t", "m", "l">>
        /\ EndsWith(written[i].output, <<".", "h", "t", "m", "l">>)

InitParse ==
    /\ pc = "read"
    /\ runs = 1
    /\ owners_file = NoOwnersFile
    /\ counter_file \in {c \in CounterFiles : ~c.given}
    /\ counter_start = counter_file
    /\ executions = 0
    /\ output_dir = <<"o">>
    /\ file_names = <<<<"a", ".", "t">>>>
    /\ next_file = 1
    /\ account_owners = EmptyDict
    /\ written = <<>>
    /\ exc = "none"
    /\ warnings = {}
    /\ input_lines \in ParserInputs(MaxLines)
    /\ data_file = <<>>
    /\ errs = 0
    /\ derived = <<>>
    /\ transformed = <<>>
    /\ fw = NoFile

NextParse == ParseStep

SpecParse == InitParse /\ [][NextParse]_vars

(***************************************************************************)
(* C11: the parser skips the first two lines whatever they hold, ignores   *)
(* blank lines, closes the section at every line that starts with * and    *)
(* appends every other line to the current section, flushing the last one: *)
(* the records of the document, in order, are the record lines after the   *)
(* header, in order, and two records share a section exactly when no       *)
(* delimiter line lies between their lines.                                *)
(***************************************************************************)
\* a delimiter line: its trimmed content starts with *
IsDelimiterLine(line) == Trimmed(line) # <<>> /\ Trimmed(line)[1] = "*"

\* index in input_lines of the k-th record line after the header
LineOfRecord(k) ==
    CHOOSE i \in RecordLineIndexes : Cardinality({j \in RecordLineIndexes : j <= i}) = k

\* the section of the document that holds the k-th record
RECURSIVE SectionOfRecord(_, _)
SectionOfRecord(k, s) ==
    IF k <= Len(data_file[s]) THEN s ELSE SectionOfRecord(k - Len(data_file[s]), s + 1)

\* the record holds the trimmed fields of the trimmed line, in order, under
\* as many field names as the line has fields
HoldsFieldsOf(record, line) ==
    LET n == IF FieldCount(Trimmed(line)) < 11 THEN FieldCount(Trimmed(line)) ELSE 11
    IN  /\ DOMAIN record = {FieldNames[i] : i \in 1..n}
        /\ \A i \in 1..n : record[FieldNames[i]] = Trimmed(FieldAt(Trimmed(line), i))

C11_ParsePartitions ==
    pc = "parsed" =>
        LET records == Flatten(data_file)
        IN  /\ Len(records) = Cardinality(RecordLineIndexes)
            /\ \A s \in 1..Len(data_file) : Len(data_file[s]) >= 1
            /\ \A k \in 1..Len(records) :
                  HoldsFieldsOf(records[k], input_lines[LineOfRecord(k)])
            /\ \A k, l \in 1..Len(records) :
                  k < l =>
                      (SectionOfRecord(k, 1) = SectionOfRecord(l, 1)
                       <=> ~\E d \in LineOfRecord(k)..LineOfRecord(l) :
                              IsDelimiterLine(input_lines[d]))

\* two first lines that look like a record and a delimiter were skipped, and
\* a delimiter split the records after them into two sections
C11_Witness ==
    /\ pc = "parsed"
    /\ Len(input_lines) = 5
    /\ input_lines[1] = LineA
    /\ input_lines[2] = LineStar
    /\ IsDelimiterLine(input_lines[4])
    /\ Len(data_file) = 2
    /\ Len(Flatten(data_file)) = 2

(***************************************************************************)
(* C12: the displayed string of a computed value, read back with the       *)
(* thousands separators removed, denotes the value that was computed, also *)
(* for whole numbers that end in zero; so different computed values of a   *)
(* document are never displayed by the same string.                        *)
(***************************************************************************)
DerivedColumns == {"open_del", "saldo", "cred_limit", "available"}

\* the displayed string denotes a number: digits are left once the sign,
\* the separators and the decimal point are taken away
DenotesNumber(text) ==
    /\ SelectSeq(text, IsDigit) # <<>>
    /\ \A i \in 1..Len(text) : IsDigit(text[i]) \/ text[i] \in {",", ".", "-"}

\* the number a displayed string denotes, in thousandths
DisplayedMilli(text) ==
    IF text # <<>> /\ text[1] = "-" THEN -NumeralMilli(Tail(text))
    ELSE NumeralMilli(text)

C12_DisplayDenotesValue ==
    \A s \in 1..Len(derived) : \A r \in 1..Len(derived[s]) :
        Len(transformed) = Len(derived) =>
            \A f \in DerivedColumns :
                /\ DenotesNumber(transformed[s][r][f])
                /\ DisplayedMilli(transformed[s][r][f]) = Milli(derived[s][r][f])
                /\ \A s2 \in 1..Len(derived) : \A r2 \in 1..Len(derived[s2]) :
                      \A f2 \in DerivedColumns :
                          Milli(derived[s][r][f]) # Milli(derived[s2][r2][f2])
                              => transformed[s][r][f] # transformed[s2][r2][f2]

(***************************************************************************)
(* C13: when the counter file is missing, unreadable or does not hold an   *)
(* integer, inc_saved_time warns, starts from zero and the run completes:  *)
(* afterwards the counter file holds 30, and no counter error aborts the   *)
(* run.                                                                    *)
(***************************************************************************)
\* the counter file cannot be read as an integer
CounterUnusable(counter) == ~counter.exists \/ ~counter.readable \/ ~counter.is_int

\* the next step is the end of main for a run given such a counter file
CounterStepOnUnusable ==
    /\ pc = "counter"
    /\ counter_file.given
    /\ CounterUnusable(counter_file)
    /\ exc' # "KeyboardInterrupt"

\* the counter file holds the integer n
CounterHolds(counter, n) == counter.exists /\ counter.is_int /\ counter.text = n

C13_UnusableCounterRestartsAt30 ==
    [][CounterStepOnUnusable =>
          /\ pc' = "done"
          /\ exc' = "none"
          /\ warnings' # {}
          /\ CounterHolds(counter_file', SAVED_MINUTES_PER_RUN)]_vars

(***************************************************************************)
(* C13 as amended: the warning is printed, the value starts from zero and  *)
(* the run completes; afterwards the counter file holds 30 when it can be  *)
(* written, and otherwise a second warning is printed and the counter file *)
(* is left as it was.                                                      *)
(***************************************************************************)
C13_UnusableCounterRestartsIfWritable ==
    [][CounterStepOnUnusable =>
          /\ pc' = "done"
          /\ exc' = "none"
          /\ warnings' \cap {"Reading of saved time failed", "Broken saved time"} # {}
          /\ IF counter_file.writable
             THEN CounterHolds(counter_file', SAVED_MINUTES_PER_RUN)
             ELSE /\ counter_file' = counter_file
                  /\ "Writing of saved time failed" \in warnings']_vars

\* a run has completed over a counter file that could not be read as an
\* integer and could be written: the file holds 30
C13_Witness ==
    /\ pc = "done"
    /\ executions >= 1
    /\ CounterUnusable(counter_start)
    /\ counter_start.writable
    /\ warnings \cap {"Reading of saved time failed", "Broken saved time"} # {}
    /\ CounterHolds(counter_file, SAVED_MINUTES_PER_RUN)

(***************************************************************************)
(* C14: for every record, the available value of this program,             *)
(* cred_limit - (saldo + open_del), and that of the older draft,           *)
(* cred_limit - saldo + open_del, are equal exactly when the scaled        *)
(* open_del is zero, and the draft's exceeds this program's by twice the   *)
(* scaled open_del otherwise.                                              *)
(***************************************************************************)
\* the draft's available for the values this program computed for a record
DraftAvailable(d) == available_draft(d.cred_limit, d.saldo, d.open_del)

C14_DraftsDifferByTwiceOpenDel ==
    \A s \in 1..Len(derived) : \A r \in 1..Len(derived[s]) :
        LET d     == derived[s][r]
            main  == Milli(d.available)
            draft == Milli(DraftAvailable(d))
        IN  /\ (main = draft) <=> (Milli(d.open_del) = 0)
            /\ draft - main = 2 * Milli(d.open_del)

\* a document with a record whose open_del is zero, where the two agree, and
\* one whose open_del is 1.5, where they differ by 3,000,000 thousandths
C14_Witness ==
    /\ pc \in {"transformed", "formatted"}
    /\ \E s \in 1..Len(derived) : \E r \in 1..Len(derived[s]) :
           /\ Milli(derived[s][r].open_del) = 0
           /\ DraftAvailable(derived[s][r]) = derived[s][r].available
    /\ \E s \in 1..Len(derived) : \E r \in 1..Len(derived[s]) :
           /\ Milli(derived[s][r].open_del) = 1500000
           /\ Milli(DraftAvailable(derived[s][r])) = Milli(derived[s][r].available) + 3000000

(***************************************************************************)
(* C15: every rendered section of N records is a grid of 13 columns by N   *)
(* rows: in each column every row is covered by exactly one cell, its own  *)
(* plain cell or the rowspan-N cell of the first row; status and approver  *)
(* are always one empty rowspan-N cell; the owner column is merged exactly *)
(* when cred_acct is, and then all N records resolve to the same owner.    *)
(***************************************************************************)
\* the thirteen columns by name
GridColumns ==
    {"cred_acct", "name1", "po_number", "credit_value", "open_del", "saldo",
     "cred_limit", "available", "use", "next_date", "status", "approver", "owner"}

\* section s was written to its end: its spacer row is in the output
SectionRendered(s) == Len(fw.rows) >= RowOffset(s) + Len(transformed[s]) + 1

\* the number of rows a cell takes
Span(cell) == IF cell.rowspan = 0 THEN 1 ELSE cell.rowspan

\* the cells of column col, of row r or of a row above, that reach row r
Covering(s, r, col) ==
    {p \in (1..r) \X (1..Len(Columns)) :
        /\ p[2] <= Len(CellsOf(s, p[1], col))
        /\ p[1] + Span(CellsOf(s, p[1], col)[p[2]]) - 1 >= r}

\* column col of section s is one rowspan-N cell on the first row
Merged(s, col) ==
    /\ Len(CellsOf(s, 1, col)) = 1
    /\ CellsOf(s, 1, col)[1].rowspan = Len(transformed[s])
    /\ \A r \in 2..Len(transformed[s]) : CellsOf(s, r, col) = <<>>

\* the position of a column in the row
ColumnIndex(col) == CHOOSE k \in 1..Len(Columns) : Columns[k] = col

C15_GridWellFormed ==
    \A s \in 1..Len(transformed) :
        SectionRendered(s) =>
            LET N == Len(transformed[s])
            IN  /\ \A r \in 1..N :
                      LET row == fw.rows[RowOffset(s) + r]
                      IN  /\ row.class = "row"
                          /\ row.closed
                          /\ \A i \in 1..Len(row.cells) :
                                /\ row.cells[i].col \in GridColumns
                                /\ row.cells[i].rowspan \in {0, N}
                                /\ row.cells[i].rowspan = N => r = 1
                                /\ i > 1 => ColumnIndex(row.cells[i - 1].col)
                                               < ColumnIndex(row.cells[i].col)
                /\ \A col \in GridColumns : \A r \in 1..N :
                      Cardinality(Covering(s, r, col)) = 1
                /\ \A col \in {"status", "approver"} :
                      /\ Merged(s, col)
                      /\ CellsOf(s, 1, col)[1].value = <<>>
                /\ Merged(s, "owner") <=> Merged(s, "cred_acct")
                /\ Merged(s, "cred_acct") =>
                      \A r \in 1..N :
                          owner_of(account_owners, transformed[s][r]["cred_acct"])
                              = CellsOf(s, 1, "owner")[1].value

\* a rendered section of two records of different accounts: the owner column
\* has a cell in each row, and status and approver one cell over both rows
C15_Witness ==
    \E s \in 1..Len(transformed) :
        /\ SectionRendered(s)
        /\ Len(transformed[s]) = 2
        /\ ~Merged(s, "cred_acct")
        /\ Len(CellsOf(s, 2, "owner")) = 1
        /\ Merged(s, "status")
        /\ Merged(s, "approver")
        /\ Merged(s, "use")

(***************************************************************************)
(* C16: the HTML written for an input file is a function of the lines of   *)
(* that file and of the owner directory alone: processing files leaves the *)
(* owner directory as read_account_owners built it, the document of each   *)
(* file is the one format_one_file gives for its lines and that directory, *)
(* and a run that is not ended by a missing path or an interrupt has       *)
(* processed every file of the input directory, whatever the other files   *)
(* and their order.                                                        *)
(***************************************************************************)
C16_OutputDependsOnOwnFileOnly ==
    /\ pc \in {"files", "counter", "crashed"} =>
          account_owners = read_account_owners(owners_file)
    /\ (pc \in {"files", "counter", "crashed"} /\ next_file > 1) =>
          fw = format_one_file(input_lines, read_account_owners(owners_file)).fw
    /\ pc \in {"done", "crashed"} => next_file = Len(file_names) + 1

====
